---- MODULE Spec2Model ----
(***************************************************************************)
(* Model of qr_scanner.py: the camera probe test_camera and one session of *)
(* the scan loop scan_qr_codes.  The camera, the barcode detector, the     *)
(* keyboard, the wall clock and the caller's callback are the environment: *)
(* every value they hand to the program is drawn from a small set.         *)
(***************************************************************************)
EXTENDS Integers, Sequences, FiniteSets, TLC

\* ------------------------------------------------------------------ bounds
\* Clock readings range over 0..MaxTime.
MaxTime == 6
\* A decoded frame holds at most MaxObjs detected objects.
MaxObjs == 2

\* ------------------------------------------------------- program constants
\* The debounce threshold of line 56, in seconds.
DebounceSeconds == 2
\* The mask of line 94.
KeyMask == 256
\* ord('q'), line 94.
QuitKey == 113
\* The point count above which the convex hull is drawn, line 76.
HullAbove == 4

\* ------------------------------------------------------------- environment
\* Payload bytes of a detected object (obj.data): two ASCII payloads and one
\* payload that is not valid UTF-8.
Payloads == {<<65>>, <<66>>, <<255>>}

\* What pyzbar.decode can return for a frame: the lists of at most MaxObjs
\* payloads (the same payload may be detected twice in one frame).
RECURSIVE FramesUpTo(_)
FramesUpTo(n) ==
    IF n = 0 THEN {<<>>}
    ELSE FramesUpTo(n - 1) \cup
         { Append(f, p) : f \in { g \in FramesUpTo(n - 1) : Len(g) = n - 1 },
                          p \in Payloads }

Frames == FramesUpTo(MaxObjs)

\* Values cv2.waitKey(1) can return: no key (-1), 'q', and a key code whose
\* low byte is that of 'q'.
Keys == {-1, 113, 369}

\* Number of boundary points of a detected polygon (obj.polygon).
PolygonSizes == {4, 5}

Times == 0..MaxTime

\* -------------------------------------------------------- pure functions
\* bytes.decode('utf-8'), line 50: a byte of 128 or more that is not part
\* of a well-formed multi-byte sequence raises UnicodeDecodeError; the
\* payloads here are single bytes, so any such byte is malformed.
Utf8Valid(bytes) == \A i \in 1..Len(bytes) : bytes[i] < 128

Chr(b) == CASE b = 65 -> "A" [] b = 66 -> "B" [] OTHER -> "?"

RECURSIVE Utf8Decode(_)
Utf8Decode(bytes) ==
    IF bytes = <<>> THEN "" ELSE Chr(Head(bytes)) \o Utf8Decode(Tail(bytes))

\* Mutant: the membership test of line 53 left out.
NotSeen_Always(d, seen) == TRUE

\* Line 53: data not in scanned_codes.
NotSeen(d, seen) == d \notin seen

\* Mutant: the debounce test of line 56 left out.
DebouncePassed_Always(t, last) == TRUE

\* Mutant: line 56 written with >= instead of >.
DebouncePassed_AtLeast(t, last) == t - last >= DebounceSeconds

\* Line 56: current_time - last_scan_time > 2.
DebouncePassed(t, last) == t - last > DebounceSeconds

\* Mutant: line 94 without the & 0xFF mask.
IsQuit_NoMask(key) == key = QuitKey

\* Line 94: cv2.waitKey(1) & 0xFF == ord('q').
IsQuit(key) == key % KeyMask = QuitKey

\* Mutant: line 76 written with >= instead of >.
Overlay_HullFromFour(n) ==
    [pts |-> n, shape |-> IF n >= HullAbove THEN "hull" ELSE "raw"]

\* Lines 76-84: the overlay drawn for a polygon of n points.
Overlay(n) == [pts |-> n, shape |-> IF n > HullAbove THEN "hull" ELSE "raw"]

\* Mutant: line 116 without the test of the frame.
ProbeResult_RetOnly(r, frame_present) == r

\* Line 116: ret and frame is not None.
ProbeResult(r, frame_present) == r /\ frame_present

\* Mutant: the break of lines 42-44 left out.
ReadFailed_Never(r) == FALSE

\* Line 42: if not ret.
ReadFailed(r) == ~r

\* Mutant: the early return of lines 25-27 left out.
AfterOpen_NoReturn(opened) == "loop"

\* Lines 25-27: where control goes after the camera was constructed.
AfterOpen(opened) == IF opened THEN "loop" ELSE "returned"

\* Value returned at line 27.
OpenFailureResult == <<>>

\* Value returned at line 101.
ReturnValue(list) == list

\* Where the for loop of line 49 goes after the object at position i.
AfterObject(i, objs) == IF i < Len(objs) THEN "for" ELSE "show"

\* Mutant: the try/except of lines 63-68 left out, so that an Exception
\* raised by the callback leaves the function.
AfterCallback_Uncaught(raised, i, objs) ==
    IF raised THEN "raised" ELSE AfterObject(i, objs)

\* Lines 63-68: an Exception raised by the callback is caught, so control
\* goes on at line 70 and then to the next object whatever the outcome.
AfterCallback(raised, i, objs) == AfterObject(i, objs)

\* Mutant: the call of line 65 left out.
CallbackSupplied_Never(cb) == FALSE

\* Line 62: if update_callback.
CallbackSupplied(cb) == cb

\* Mutant: line 58 left out.
AddSeen_Forgotten(seen, d) == seen

\* Line 58: scanned_codes.add(data).
AddSeen(seen, d) == seen \cup {d}

\* Mutant: lines 70-71 moved into the try block, after the call, so that
\* an Exception raised by the callback skips the timestamp.
StoredReading_OnlyOnSuccess(raised, taken, last, now) ==
    IF raised THEN last ELSE taken

\* Mutant: line 71 reads the clock again after the callback.
StoredReading_Reread(raised, taken, last, now) == now

\* Line 71 after a callback that returned or raised: last_scan_time takes
\* current_time, the reading taken at line 54 before the callback ran;
\* neither the outcome of the callback, nor the old timestamp, nor the
\* clock at that moment has a part in it.
StoredReading(raised, taken, last, now) == taken

\* Mutant: the timestamp starts so low that the first detection always
\* passes the debounce.
InitialLastScanTime_Open == 0 - DebounceSeconds - 1

\* Line 35: last_scan_time = 0.
InitialLastScanTime == 0

\* How a Python bool is shown in the state.
PyBool(b) == IF b THEN "True" ELSE "False"

\* ------------------------------------------------------------------ state
VARIABLES
    \* test_camera
    tpc,                \* position: "idle", "opened", "returned"
    tcap,               \* its handle: "none", "unopened", "held", "released"
    tresult,            \* its return value, read once tpc = "returned"
    \* scan_qr_codes
    pc,                 \* position: "idle", "loop", "for", "callback", "show",
                        \*           "returned", "raised"
    update_callback,    \* whether a callback was supplied (line 15)
    cap,                \* the handle of line 24: "none", "unopened", "held", "released"
    windows,            \* whether a display window is open (lines 91, 99)
    scanned_codes,      \* line 34
    last_scan_time,     \* line 35
    newly_scanned_data, \* line 36
    ret,                \* line 41: "none" while unbound, then "True" or "False"
    decoded_objects,    \* line 47
    idx,                \* position of the for loop of line 49 in decoded_objects
    data,               \* line 50, "none" while unbound
    current_time,       \* line 54; -1 while unbound or no longer read
    result,             \* the value returned, read once pc = "returned"
    \* environment
    clock,              \* what time.time() returns now
    \* history
    probe_obs,          \* what the camera answered to test_camera
    acquired,           \* number of cv2.VideoCapture(0) calls of the session
    last_key,           \* the last value cv2.waitKey returned, as a set
    verdict,            \* outcome of the last detection
    accept_log,         \* one record per acceptance: code and clock reading
    callback_log,       \* one record per callback invocation: argument, outcome
    beeps,              \* number of play_beep() calls
    overlays,           \* overlays drawn on the frame in hand
    frame_accepts       \* number of acceptances made on the frame in hand

vars == <<tpc, tcap, tresult, pc, update_callback, cap, windows, scanned_codes,
          last_scan_time, newly_scanned_data, ret, decoded_objects, idx, data,
          current_time, result, clock, probe_obs, acquired, last_key,
          verdict, accept_log, callback_log, beeps, overlays, frame_accepts>>

probe_vars == <<tpc, tcap, tresult, probe_obs>>

session_vars == <<scanned_codes, last_scan_time, newly_scanned_data>>

loop_locals == <<ret, decoded_objects, idx, data, current_time>>

history_vars == <<acquired, last_key, verdict, accept_log, callback_log,
                  beeps, overlays, frame_accepts>>

NoObs == [open |-> "none", read |-> "none", ret |-> FALSE, frame |-> FALSE]

\* State before either function is called.  Lines 34-36 give the session
\* variables their first values; they are shown from the start.
Init ==
    /\ tpc = "idle" /\ tcap = "none" /\ tresult = FALSE
    /\ probe_obs = NoObs
    /\ pc = "idle"
    /\ update_callback \in BOOLEAN
    /\ cap = "none"
    /\ windows = FALSE
    /\ scanned_codes = {}
    /\ last_scan_time = InitialLastScanTime
    /\ newly_scanned_data = <<>>
    /\ ret = "none"
    /\ decoded_objects = <<>>
    /\ idx = 1
    /\ data = "none"
    /\ current_time = -1
    /\ result = <<>>
    /\ clock \in Times
    /\ acquired = 0
    /\ last_key = {}
    /\ verdict = "none"
    /\ accept_log = <<>>
    /\ callback_log = <<>>
    /\ beeps = 0
    /\ overlays = <<>>
    /\ frame_accepts = 0

\* ------------------------------------------------------------ test_camera
\* Lines 108-111 and 118-120: open the default camera.  The constructor
\* raises (caught at line 118), or the device does not open, or it opens.
TcOpen ==
    /\ tpc = "idle"
    /\ pc = "idle"
    /\ \E outcome \in {"raises", "closed", "opened"} :
         /\ probe_obs' = [probe_obs EXCEPT !.open = outcome]
         /\ CASE outcome = "raises" ->
                   /\ tpc' = "returned" /\ tcap' = "none" /\ tresult' = FALSE
              [] outcome = "closed" ->
                   /\ tpc' = "returned" /\ tcap' = "unopened" /\ tresult' = FALSE
              [] outcome = "opened" ->
                   /\ tpc' = "opened" /\ tcap' = "held" /\ tresult' = tresult
    /\ UNCHANGED <<pc, update_callback, cap, windows, session_vars, loop_locals,
                   result, clock, history_vars>>

\* Lines 113-120: one frame read.  cap.read() raises and the handler of
\* line 118 returns False without reaching line 114, or it returns (ret,
\* frame), the device is released and `ret and frame is not None` returned.
TcRead ==
    /\ tpc = "opened"
    /\ \E raised \in BOOLEAN, r \in BOOLEAN, frame_present \in BOOLEAN :
         IF raised
         THEN /\ probe_obs' = [probe_obs EXCEPT !.read = "raises"]
              /\ tcap' = tcap
              /\ tresult' = FALSE
         ELSE /\ probe_obs' = [probe_obs EXCEPT !.read = "returned", !.ret = r,
                                                !.frame = frame_present]
              /\ tcap' = "released"
              /\ tresult' = ProbeResult(r, frame_present)
    /\ tpc' = "returned"
    /\ UNCHANGED <<pc, update_callback, cap, windows, session_vars, loop_locals,
                   result, clock, history_vars>>

\* ---------------------------------------------------------- scan_qr_codes
\* The caller of lines 128-139 starts a session only after a successful
\* probe; a caller that supplies a callback calls the function directly.
MayStartScan == tpc = "idle" \/ (tpc = "returned" /\ tresult)

\* Lines 24-36: acquire the camera; return [] when it did not open.
ScanOpen ==
    /\ pc = "idle"
    /\ MayStartScan
    /\ acquired' = acquired + 1
    /\ \E opened \in BOOLEAN :
         /\ cap' = IF opened THEN "held" ELSE "unopened"
         /\ pc' = AfterOpen(opened)
         /\ result' = IF opened THEN result ELSE OpenFailureResult
    /\ UNCHANGED <<probe_vars, update_callback, windows, session_vars,
                   loop_locals, clock, last_key, verdict, accept_log,
                   callback_log, beeps, overlays, frame_accepts>>

\* Lines 97-101: release the camera, close the windows, return the list.
Leave ==
    /\ cap' = "released"
    /\ windows' = FALSE
    /\ result' = ReturnValue(newly_scanned_data)
    /\ pc' = "returned"

\* Lines 41-47: read a frame; leave the loop when the read failed (line
\* 44), otherwise decode it.  pyzbar.decode returns a list of objects or
\* raises, and an error raised there leaves the function.
ReadFrame ==
    /\ pc = "loop"
    /\ \E r \in BOOLEAN :
         /\ ret' = PyBool(r)
         /\ IF ReadFailed(r)
            THEN /\ Leave
                 /\ UNCHANGED <<decoded_objects, idx, overlays, frame_accepts>>
            ELSE /\ \E decode_raises \in BOOLEAN :
                      IF decode_raises
                      THEN /\ pc' = "raised"
                           /\ UNCHANGED <<decoded_objects, idx, overlays,
                                          frame_accepts>>
                      ELSE /\ \E objs \in Frames :
                                /\ decoded_objects' = objs
                                /\ pc' = AfterObject(0, objs)
                           /\ idx' = 1
                           /\ overlays' = <<>>
                           /\ frame_accepts' = 0
                 /\ UNCHANGED <<cap, windows, result>>
    /\ UNCHANGED <<probe_vars, update_callback, session_vars, data,
                   current_time, clock, acquired, last_key, verdict,
                   accept_log, callback_log, beeps>>

\* Lines 73-84: draw the polygon of the current object; the for loop moves
\* to the next object.
Draw ==
    /\ \E n \in PolygonSizes : overlays' = Append(overlays, Overlay(n))
    /\ idx' = idx + 1

\* Mutant: line 71 left out.
Complete_NoStamp(reading) ==
    /\ beeps' = beeps + 1
    /\ last_scan_time' = last_scan_time

\* Lines 70-71: beep, then store the reading taken at line 54.
Complete(reading) ==
    /\ beeps' = beeps + 1
    /\ last_scan_time' = reading

\* Lines 49-61 for the next object of the frame, and lines 70-84 when no
\* callback has to run:  decode the payload (an undecodable payload raises
\* and leaves the function), test membership, read the clock, test the
\* debounce, record the acceptance.
ProcessObject ==
    /\ pc = "for"
    /\ LET payload == decoded_objects[idx] IN
       IF ~Utf8Valid(payload)
       THEN /\ pc' = "raised"
            /\ UNCHANGED <<session_vars, idx, data, current_time, verdict,
                           accept_log, beeps, overlays, frame_accepts>>
       ELSE LET d == Utf8Decode(payload) IN
            /\ data' = d
            /\ IF ~NotSeen(d, scanned_codes)
               THEN /\ verdict' = "seen"
                    /\ Draw
                    /\ pc' = AfterObject(idx, decoded_objects)
                    /\ UNCHANGED <<session_vars, current_time, accept_log, beeps,
                                   frame_accepts>>
               ELSE IF ~DebouncePassed(clock, last_scan_time)
               THEN /\ verdict' = "debounced"
                    /\ Draw
                    /\ pc' = AfterObject(idx, decoded_objects)
                    /\ UNCHANGED <<session_vars, current_time, accept_log, beeps,
                                   frame_accepts>>
               ELSE /\ verdict' = "accepted"
                    /\ scanned_codes' = AddSeen(scanned_codes, d)
                    /\ newly_scanned_data' = Append(newly_scanned_data, d)
                    /\ accept_log' = Append(accept_log, [code |-> d, at |-> clock])
                    /\ frame_accepts' = frame_accepts + 1
                    /\ IF CallbackSupplied(update_callback)
                       THEN /\ pc' = "callback"
                            /\ current_time' = clock
                            /\ UNCHANGED <<last_scan_time, idx, beeps, overlays>>
                       ELSE /\ Complete(clock)
                            /\ current_time' = current_time
                            /\ Draw
                            /\ pc' = AfterObject(idx, decoded_objects)
    /\ UNCHANGED <<probe_vars, update_callback, cap, windows, ret,
                   decoded_objects, result, clock, acquired, last_key,
                   callback_log>>

\* Lines 62-84 once the callback has been entered: it returns or raises an
\* Exception, which line 67 catches; then the beep, the timestamp and the
\* overlay of the object.
Callback ==
    /\ pc = "callback"
    /\ \E raised \in BOOLEAN :
         /\ callback_log' = Append(callback_log, [arg |-> data, raised |-> raised])
         /\ pc' = AfterCallback(raised, idx, decoded_objects)
         /\ Complete(StoredReading(raised, current_time, last_scan_time, clock))
    /\ current_time' = -1
    /\ Draw
    /\ UNCHANGED <<probe_vars, update_callback, cap, windows, scanned_codes,
                   newly_scanned_data, ret, decoded_objects, data, result,
                   clock, acquired, last_key, verdict, accept_log,
                   frame_accepts>>

\* Lines 90-101: show the frame, poll the keyboard, leave on 'q'.
ShowAndPoll ==
    /\ pc = "show"
    /\ \E key \in Keys :
         /\ last_key' = {key}
         /\ IF IsQuit(key)
            THEN Leave
            ELSE /\ pc' = "loop"
                 /\ windows' = TRUE
                 /\ UNCHANGED <<cap, result>>
    /\ UNCHANGED <<probe_vars, update_callback, session_vars, loop_locals,
                   clock, acquired, verdict, accept_log, callback_log, beeps,
                   overlays, frame_accepts>>

\* The wall clock while a session runs: time.time() is not monotonic, so
\* the next reading is any value of the range.
Tick ==
    /\ pc \in {"loop", "for", "callback", "show"}
    /\ \E t \in Times \ {clock} : clock' = t
    /\ UNCHANGED <<probe_vars, pc, update_callback, cap, windows, session_vars,
                   loop_locals, result, history_vars>>

Next ==
    \/ TcOpen
    \/ TcRead
    \/ ScanOpen
    \/ ReadFrame
    \/ ProcessObject
    \/ Callback
    \/ ShowAndPoll
    \/ Tick

Spec == Init /\ [][Next]_vars

\* ================================================================ claims
\* Codes of the acceptances, in order.
AcceptedCodes == [i \in 1..Len(accept_log) |-> accept_log[i].code]

NoDuplicates(seq) == \A i, j \in 1..Len(seq) : seq[i] = seq[j] => i = j

Abs(x) == IF x < 0 THEN -x ELSE x

\* A step that handles one detected object (ProcessObject): it always
\* moves the for loop or leaves it.
DetectionStep == pc = "for" /\ (pc' # "for" \/ idx' # idx)

\* The text of the object such a step handles.
Detected == Utf8Decode(decoded_objects[idx])

AcceptedInStep == Len(accept_log') = Len(accept_log) + 1

QuitObserved == \E k \in last_key : k % KeyMask = QuitKey

\* C1: a code is accepted at most once in a session: the acceptances, the
\* result list and the returned list never hold the same code twice.
C1_NeverReaccepted ==
    /\ NoDuplicates(AcceptedCodes)
    /\ NoDuplicates(newly_scanned_data)
    /\ pc = "returned" => NoDuplicates(result)

\* C1 witness: "A" was accepted, then detected again and turned down.
C1_Witness ==
    /\ newly_scanned_data = <<"A">>
    /\ verdict = "seen"
    /\ data = "A"

\* C2: the clock readings of any two acceptances of a session differ by at
\* least 2 seconds.
C2_GlobalDebounce ==
    \A i, j \in 1..Len(accept_log) :
        i # j => Abs(accept_log[i].at - accept_log[j].at) >= DebounceSeconds

\* C2 witness: two different codes accepted as close together as the code
\* allows.
C2_Witness ==
    /\ Len(accept_log) = 2
    /\ accept_log[1].code # accept_log[2].code
    /\ accept_log[2].at - accept_log[1].at = DebounceSeconds + 1

\* C3 as stated, for the detections that follow an acceptance: a detected
\* code is accepted if and only if it is not in the seen set and at least
\* 2 seconds have elapsed since the last acceptance (so also when exactly
\* 2 seconds have elapsed).
C3_Original ==
    [][DetectionStep /\ Utf8Valid(decoded_objects[idx]) /\ accept_log # <<>> =>
          (AcceptedInStep <=>
              /\ Detected \notin scanned_codes
              /\ clock - last_scan_time >= DebounceSeconds)]_vars

\* C3 amended: a detected code is accepted if and only if it is not in the
\* seen set and more than 2 seconds have elapsed since the last acceptance
\* (since the last-scan timestamp, which is 0 until a code is accepted).
C3_Amended ==
    [][DetectionStep /\ Utf8Valid(decoded_objects[idx]) =>
          (AcceptedInStep <=>
              /\ Detected \notin scanned_codes
              /\ clock - last_scan_time > DebounceSeconds)]_vars

\* C3 witness: a code not seen before was turned down exactly 2 seconds
\* after the last acceptance.
C3_Witness ==
    /\ accept_log # <<>>
    /\ verdict = "debounced"
    /\ data \notin scanned_codes
    /\ pc \in {"for", "show"}
    /\ clock - last_scan_time = DebounceSeconds

\* C4: an Exception raised by the callback does not leave scan_qr_codes:
\* the step that runs the callback goes on to the next object of the same
\* frame (or to the display when there is none), whatever the outcome;
\* every acceptance made with a callback supplied enters the callback, and
\* the callback receives the code accepted.
C4_CallbackFailureContained ==
    [][/\ (pc = "callback" /\ pc' # "callback") =>
              /\ pc' = (IF idx < Len(decoded_objects) THEN "for" ELSE "show")
              /\ idx' = idx + 1
              /\ decoded_objects' = decoded_objects
              /\ Len(callback_log') = Len(callback_log) + 1
              /\ callback_log'[Len(callback_log')].arg
                     = accept_log[Len(accept_log)].code
       /\ (DetectionStep /\ AcceptedInStep /\ update_callback) =>
              pc' = "callback"]_vars

\* C4 witness: the callback raised on one code, and a different code was
\* accepted and handed to the callback afterwards.
C4_Witness ==
    \E i, j \in 1..Len(callback_log) :
        /\ i < j
        /\ callback_log[i].raised
        /\ callback_log[j].arg # callback_log[i].arg
        /\ callback_log[j].arg \in scanned_codes

\* C5 as stated: the camera is acquired once, and whenever control is back
\* with the caller the camera is not held and no window is open.
C5_Original ==
    /\ acquired <= 1
    /\ pc \in {"returned", "raised"} => (cap # "held" /\ ~windows)

\* C6: once a frame read failed or the quit key was polled the session is
\* over: the function has returned, what it returned is the list of the
\* codes accepted, in order, and nothing is read, decoded or accepted
\* afterwards.
C6_Terminates ==
    /\ []((ret = "False" \/ QuitObserved) => pc = "returned")
    /\ []((pc = "returned" /\ cap = "released") => result = AcceptedCodes)
    /\ [][pc = "returned" =>
             UNCHANGED <<pc, ret, decoded_objects, idx, accept_log,
                         newly_scanned_data, result>>]_vars

\* C6 witness: the session ended on a key code whose low byte is 'q' and
\* returned two codes.
C6_Witness ==
    /\ pc = "returned"
    /\ last_key = {369}
    /\ Len(result) = 2

\* C7 as stated: when test_camera has returned, the device it opened is no
\* longer held.
C7_Original == tpc = "returned" => tcap # "held"

\* C8: test_camera returns True exactly when the device opened and the
\* frame read returned a true flag together with a frame; it returns False
\* in every other case and no error leaves it.
C8_ProbeReport ==
    /\ tpc \in {"idle", "opened", "returned"}
    /\ tresult \in BOOLEAN
    /\ tpc = "returned" =>
          (tresult <=> /\ probe_obs.open = "opened"
                       /\ probe_obs.read = "returned"
                       /\ probe_obs.ret
                       /\ probe_obs.frame)

\* C8 witness: the read signalled success but handed back no frame, and
\* the probe reported failure.
C8_Witness ==
    /\ tpc = "returned"
    /\ probe_obs.read = "returned"
    /\ probe_obs.ret
    /\ ~probe_obs.frame
    /\ ~tresult

\* C9: when the camera did not open, scan_qr_codes has returned an empty
\* list: no frame was read, no code accepted, the callback not invoked and
\* no beep played.
C9_OpenFailure ==
    cap = "unopened" =>
        /\ pc = "returned"
        /\ result = <<>>
        /\ ret = "none"
        /\ decoded_objects = <<>>
        /\ accept_log = <<>>
        /\ newly_scanned_data = <<>>
        /\ callback_log = <<>>
        /\ beeps = 0

\* C9 witness: a session with a callback supplied ended on the open failure.
C9_Witness ==
    /\ cap = "unopened"
    /\ pc = "returned"
    /\ update_callback
    /\ acquired = 1

\* C10 as stated: after a failed frame read the scan has returned an empty
\* result.
C10_Original ==
    ret = "False" => (pc = "returned" /\ result = <<>>)

\* C10 amended: after a failed frame read the scan has returned, without
\* raising, the list of the codes accepted before the failure, which is
\* empty only when none was accepted.
C10_Amended ==
    ret = "False" =>
        /\ pc = "returned"
        /\ result = AcceptedCodes
        /\ (result = <<>> <=> accept_log = <<>>)

\* C10 witness: a read failed after a code had been accepted.
C10_Witness ==
    /\ ret = "False"
    /\ pc = "returned"
    /\ Len(result) >= 1

\* C11: with a callback supplied, the callback has been invoked once for
\* each completed acceptance, with the accepted code, in the order of the
\* result list, and for nothing else (so never for a detection that was
\* turned down); without a callback nothing is invoked.
C11_CallbackOncePerAcceptance ==
    LET entered == Len(accept_log) - (IF pc = "callback" THEN 1 ELSE 0) IN
    /\ ~update_callback => callback_log = <<>>
    /\ update_callback =>
          /\ Len(callback_log) = entered
          /\ \A i \in 1..Len(callback_log) :
                 callback_log[i].arg = newly_scanned_data[i]
          /\ \A i, j \in 1..Len(callback_log) :
                 callback_log[i].arg = callback_log[j].arg => i = j

\* C11 witness: two codes were accepted and handed to the callback, and
\* the detection handled last was turned down without an invocation.
C11_Witness ==
    /\ update_callback
    /\ Len(callback_log) = 2
    /\ newly_scanned_data = <<"B", "A">>
    /\ verdict \in {"seen", "debounced"}
    /\ pc = "show"

\* C12: the debounce is global and does not consume the code.  A code not
\* seen before that is detected within 2 seconds of the last acceptance
\* (of another code) is turned down, and that leaves the seen set, the
\* result list and the last-scan timestamp as they were; detected once more
\* than 2 seconds have passed since that acceptance, it is accepted.
C12_DebounceDoesNotConsume ==
    [][(/\ DetectionStep
        /\ Utf8Valid(decoded_objects[idx])
        /\ accept_log # <<>>
        /\ Detected \notin scanned_codes) =>
          IF clock - accept_log[Len(accept_log)].at <= DebounceSeconds
          THEN /\ accept_log' = accept_log
               /\ scanned_codes' = scanned_codes
               /\ newly_scanned_data' = newly_scanned_data
               /\ last_scan_time' = last_scan_time
          ELSE /\ AcceptedInStep
               /\ scanned_codes' = scanned_codes \cup {Detected}
               /\ newly_scanned_data' = Append(newly_scanned_data, Detected)]_vars

\* C12 witness: "A" was accepted and "B", not seen before, has just been
\* turned down inside the window; it is still outside the seen set.
C12_Witness ==
    /\ newly_scanned_data = <<"A">>
    /\ scanned_codes = {"A"}
    /\ verdict = "debounced"
    /\ data = "B"
    /\ clock >= last_scan_time
    /\ clock - last_scan_time <= DebounceSeconds
    /\ last_scan_time = accept_log[1].at

\* C13: one overlay is drawn for each detected object, accepted or not:
\* while the objects of a frame are handled there is one overlay for each
\* object handled so far, a frame that is displayed carries one overlay for
\* each of its objects, and an overlay is the convex hull when the polygon
\* has more than 4 points and the raw polygon otherwise.
C13_OverlayPerDetection ==
    /\ pc = "for" => Len(overlays) = idx - 1
    /\ pc = "callback" => Len(overlays) = idx - 1
    /\ pc = "show" => Len(overlays) = Len(decoded_objects)
    /\ \A i \in 1..Len(overlays) :
           overlays[i].shape = (IF overlays[i].pts > 4 THEN "hull" ELSE "raw")

\* C13 witness: a frame with two objects, one accepted and one turned
\* down, is about to be displayed with a raw polygon and a hull on it.
C13_Witness ==
    /\ pc = "show"
    /\ Len(decoded_objects) = 2
    /\ frame_accepts = 1
    /\ verdict = "debounced"
    /\ overlays = <<[pts |-> 4, shape |-> "raw"], [pts |-> 5, shape |-> "hull"]>>

\* C14: an acceptance is completed even when the callback raises.  When
\* the callback is entered the code is already in the seen set and at the
\* end of the result list; the step in which the callback raises still
\* plays the beep and still stores the reading of that acceptance as the
\* last-scan timestamp; a code on which the callback raised is in the seen
\* set, so it is handed to the callback only once.
C14_AcceptanceCompleted ==
    /\ [](pc = "callback" =>
            /\ data \in scanned_codes
            /\ newly_scanned_data # <<>>
            /\ newly_scanned_data[Len(newly_scanned_data)] = data
            /\ beeps = Len(accept_log) - 1)
    /\ [](\A i \in 1..Len(callback_log) :
            callback_log[i].raised =>
                /\ callback_log[i].arg \in scanned_codes
                /\ \A j \in 1..Len(callback_log) :
                       callback_log[j].arg = callback_log[i].arg => j = i)
    /\ [][(/\ pc = "callback"
           /\ Len(callback_log') = Len(callback_log) + 1
           /\ callback_log'[Len(callback_log')].raised) =>
             /\ beeps' = beeps + 1
             /\ last_scan_time' = accept_log[Len(accept_log)].at
             /\ scanned_codes' = scanned_codes
             /\ newly_scanned_data' = newly_scanned_data]_vars

\* C14 witness: the callback raised on the only code accepted; the beep
\* was played, the timestamp is that of the acceptance, and another code
\* detected inside the window that started there was turned down.
C14_Witness ==
    /\ Len(callback_log) = 1
    /\ callback_log[1].raised
    /\ Len(accept_log) = 1
    /\ beeps = 1
    /\ last_scan_time = accept_log[1].at
    /\ verdict = "debounced"
    /\ data # callback_log[1].arg
    /\ clock >= last_scan_time
    /\ clock - last_scan_time <= DebounceSeconds

\* The codes a list holds.
Range(seq) == { seq[i] : i \in 1..Len(seq) }

\* C15: the seen set and the result list hold the same codes, each once;
\* neither ever loses a code, and a step that extends one extends the
\* other by the same code.
C15_SetAndListAgree ==
    /\ [](/\ Range(newly_scanned_data) = scanned_codes
          /\ Len(newly_scanned_data) = Cardinality(scanned_codes))
    /\ [][/\ scanned_codes \subseteq scanned_codes'
          /\ Len(newly_scanned_data') >= Len(newly_scanned_data)
          /\ SubSeq(newly_scanned_data', 1, Len(newly_scanned_data))
                 = newly_scanned_data
          /\ Len(newly_scanned_data') <= Len(newly_scanned_data) + 1
          /\ (Len(newly_scanned_data') = Len(newly_scanned_data) + 1 =>
                 scanned_codes' = scanned_codes
                     \cup {newly_scanned_data'[Len(newly_scanned_data')]})
          /\ (scanned_codes' # scanned_codes =>
                 Len(newly_scanned_data') = Len(newly_scanned_data) + 1)]_vars

\* C15 witness: both codes were accepted, "B" first.
C15_Witness ==
    /\ newly_scanned_data = <<"B", "A">>
    /\ scanned_codes = {"A", "B"}
    /\ pc = "loop"

\* C16: the last-scan timestamp is 0 until a code is accepted, and the
\* first acceptance passes the same test as the others: while nothing has
\* been accepted, a detected code is accepted exactly when the clock reads
\* more than 2, so every code detected while it reads 2 or less is turned
\* down.
C16_FirstAcceptanceDebounced ==
    /\ [](accept_log = <<>> => (last_scan_time = 0 /\ scanned_codes = {}))
    /\ [][(/\ DetectionStep
           /\ Utf8Valid(decoded_objects[idx])
           /\ accept_log = <<>>) =>
             (AcceptedInStep <=> clock > DebounceSeconds)]_vars

\* C16 witness: nothing has been accepted yet and a code detected while
\* the clock read exactly 2 has been turned down.
C16_Witness ==
    /\ accept_log = <<>>
    /\ scanned_codes = {}
    /\ verdict = "debounced"
    /\ data = "A"
    /\ clock = DebounceSeconds
    /\ pc = "show"

\* C17: the timestamp stored for an acceptance is the reading taken at the
\* detection, before the callback ran, whatever the clock reads when the
\* callback is over.  So a second code of the same frame is accepted only
\* when the clock at its detection reads more than 2 seconds past the
\* reading of the acceptance before it (at most one acceptance per frame
\* while the clock moves by 2 seconds or less), and it is accepted when the
\* clock does, as after a callback that ran for more than 2 seconds.
C17_StampTakenBeforeCallback ==
    /\ [](pc = "callback" =>
            /\ accept_log # <<>>
            /\ current_time = accept_log[Len(accept_log)].at)
    /\ [][(pc = "callback" /\ pc' # "callback") =>
             last_scan_time' = current_time]_vars
    /\ [][(/\ DetectionStep
           /\ Utf8Valid(decoded_objects[idx])
           /\ frame_accepts >= 1
           /\ Detected \notin scanned_codes) =>
             (AcceptedInStep <=>
                  clock - accept_log[Len(accept_log)].at > DebounceSeconds)]_vars

\* C17 witness: a callback that was entered when the clock read t was over
\* when it read t + 3, the timestamp stored was t, and the next object of
\* the same frame, a code not seen before, was accepted at once.
C17_Witness ==
    /\ update_callback
    /\ frame_accepts = 2
    /\ Len(accept_log) = 2
    /\ Len(callback_log) = 1
    /\ pc = "callback"
    /\ last_scan_time = accept_log[1].at
    /\ current_time = accept_log[1].at + DebounceSeconds + 1
    /\ clock = current_time

====
